---- MODULE Spec2Model ----
(***************************************************************************)
(* spotifyctl: the "status" pipeline of src/src/spotifyctl.c               *)
(*   query reply -> extract title -> extract artist -> format_output ->    *)
(*   puts                                                                  *)
(* A C string is a sequence of one-character strings; a null pointer is    *)
(* the value NULL.                                                         *)
(***************************************************************************)
EXTENDS Integers, Sequences, FiniteSets, TLC

VARIABLES
    pc,                 \* position of the process in main / get_status / format_output
    SUPPRESS_ERRORS,    \* the global set by -q
    max_artist_length, max_title_length, max_length, format, trunc,
    reply,              \* the arguments of the reply message
    title, artist,      \* the extracted fields, NULL when absent
    branch,             \* the branch format_output took
    trunc_title, trunc_artist, temp2, output,
    stdout,             \* the lines written by puts
    stderr,             \* the messages written to the diagnostic stream
    status,             \* how the process ended
    failed              \* history: the str_trunc calls that returned NULL

vars == <<pc, SUPPRESS_ERRORS, max_artist_length, max_title_length, max_length,
          format, trunc, reply, title, artist, branch, trunc_title,
          trunc_artist, temp2, output, stdout, stderr, status, failed>>

options == <<SUPPRESS_ERRORS, max_artist_length, max_title_length, max_length,
             format, trunc>>

-----------------------------------------------------------------------------
(* Bounds of the explored inputs *)

MaxBudget == 3

MaxFieldLen == 3

-----------------------------------------------------------------------------
(* Program constants *)

INT_MAX == 2147483647

NULL == <<"NULL">>

TOKEN_TITLE == <<"%", "t", "i", "t", "l", "e", "%">>

TOKEN_ARTIST == <<"%", "a", "r", "t", "i", "s", "t", "%">>

DEFAULT_FORMAT_TEMPLATE == TOKEN_ARTIST \o <<":", " ">> \o TOKEN_TITLE

DEFAULT_PLACEHOLDER == <<"S", "p", "o", "t", "i", "f", "y">>

DEFAULT_TRUNC == <<".", ".", ".">>

METADATA_TITLE_KEY == "xesam:title"

METADATA_ARTIST_KEY == "xesam:artist"

DBUS_TYPE_VARIANT == "v"

DBUS_TYPE_ARRAY == "a"

DBUS_TYPE_DICT_ENTRY == "e"

DBUS_TYPE_STRING == "s"

DBUS_TYPE_INT32 == "i"

MSG_TITLE == "Failed to truncate title. Please make sure the trunc string is smaller than the max title length.\n"

MSG_ARTIST == "Failed to truncate artist. Please make sure the trunc string is smaller than the max artist length.\n"

MSG_OUTPUT == "Failed to truncate output. Please make sure the trunc string is smaller than the max output length.\n"

MSG_TRANSPORT == "err.message"

-----------------------------------------------------------------------------
(* String helpers of utils.c *)

\* find occurs in str at position i
MatchAt(str, find, i) ==
    /\ i + Len(find) - 1 <= Len(str)
    /\ \A k \in 1..Len(find) : str[i + k - 1] = find[k]

RECURSIVE CountFrom(_, _, _)
CountFrom(str, find, i) ==
    IF i > Len(str) THEN 0
    ELSE IF MatchAt(str, find, i) THEN 1 + CountFrom(str, find, i + Len(find))
    ELSE CountFrom(str, find, i + 1)

\* number of occurrences of find in str, scanned left to right
num_of_matches(str, find) == CountFrom(str, find, 1)

RECURSIVE ReplaceFrom(_, _, _, _)
ReplaceFrom(str, find, repl, i) ==
    IF i > Len(str) THEN <<>>
    ELSE IF MatchAt(str, find, i)
         THEN repl \o ReplaceFrom(str, find, repl, i + Len(find))
         ELSE <<str[i]>> \o ReplaceFrom(str, find, repl, i + 1)

\* every occurrence of find replaced by repl, left to right; the inserted
\* text is not scanned again within the call
str_replace_all(str, find, repl) == ReplaceFrom(str, find, repl, 1)

\* str cut to max_len characters, the last of them the marker trunc;
\* NULL when the marker does not fit
str_trunc(str, max_len, marker) ==
    IF Len(str) <= max_len THEN str
    ELSE IF Len(marker) > max_len THEN NULL
    ELSE SubSeq(str, 1, max_len - Len(marker)) \o marker

-----------------------------------------------------------------------------
(* DBus message iterator helpers of utils.c.  An iterator is the sequence  *)
(* of the nodes that remain at its level; its argument is the first one.   *)

Children(node) ==
    IF node.type = DBUS_TYPE_VARIANT THEN <<node.val>>
    ELSE IF node.type = DBUS_TYPE_ARRAY THEN node.val
    ELSE IF node.type = DBUS_TYPE_DICT_ENTRY
         THEN <<[type |-> DBUS_TYPE_STRING, val |-> node.key], node.val>>
    ELSE <<>>

iter_try_step_into_type(iter, type) ==
    IF iter # <<>> /\ Head(iter).type = type
    THEN [ok |-> TRUE, iter |-> Children(Head(iter))]
    ELSE [ok |-> FALSE, iter |-> iter]

iter_try_step_to_key(iter, key) ==
    LET hits == {i \in 1..Len(iter) :
                    /\ iter[i].type = DBUS_TYPE_DICT_ENTRY
                    /\ iter[i].key = key}
    IN IF hits = {} THEN [ok |-> FALSE, iter |-> <<>>]
       ELSE LET i == CHOOSE j \in hits : \A k \in hits : j <= k
            IN [ok |-> TRUE, iter |-> <<iter[i].val>>]

iter_get_string(iter) ==
    IF iter # <<>> /\ Head(iter).type = DBUS_TYPE_STRING
    THEN Head(iter).val
    ELSE NULL

-----------------------------------------------------------------------------
(* Field extraction *)

get_song_title_from_metadata(msg) ==
    LET s1 == iter_try_step_into_type(msg, DBUS_TYPE_VARIANT)
        s2 == iter_try_step_into_type(s1.iter, DBUS_TYPE_ARRAY)
        s3 == iter_try_step_to_key(s2.iter, METADATA_TITLE_KEY)
        s4 == iter_try_step_into_type(s3.iter, DBUS_TYPE_VARIANT)
    IN IF s1.ok /\ s2.ok /\ s3.ok /\ s4.ok
       THEN iter_get_string(s4.iter)
       ELSE NULL

get_song_artist_from_metadata(msg) ==
    LET s1 == iter_try_step_into_type(msg, DBUS_TYPE_VARIANT)
        s2 == iter_try_step_into_type(s1.iter, DBUS_TYPE_ARRAY)
        s3 == iter_try_step_to_key(s2.iter, METADATA_ARTIST_KEY)
        s4 == iter_try_step_into_type(s3.iter, DBUS_TYPE_VARIANT)
        s5 == iter_try_step_into_type(s4.iter, DBUS_TYPE_ARRAY)
    IN IF s1.ok /\ s2.ok /\ s3.ok /\ s4.ok /\ s5.ok
       THEN iter_get_string(s5.iter)
       ELSE NULL

-----------------------------------------------------------------------------
(* The inputs explored *)

Eminem == <<"E", "m", "i", "n", "e", "m">>

SingForTheMoment ==
    <<"S", "i", "n", "g", " ", "F", "o", "r", " ", "T", "h", "e", " ",
      "M", "o", "m", "e", "n", "t">>

\* the first n characters of base repeated
Take(base, n) == [i \in 1..n |-> base[((i - 1) % Len(base)) + 1]]

Artists ==
    {Take(<<"a", "b", "c", "d">>, n) : n \in 0..MaxFieldLen}
        \cup {TOKEN_TITLE, TOKEN_ARTIST, <<"t">>, Eminem}

Titles ==
    {Take(<<"x", "y", "z", "w">>, n) : n \in 0..MaxFieldLen}
        \cup {TOKEN_ARTIST, SingForTheMoment}

Budgets == (1..MaxBudget) \cup {INT_MAX}

Markers == {<<>>, <<".">>, DEFAULT_TRUNC, TOKEN_ARTIST}

Templates ==
    { DEFAULT_FORMAT_TEMPLATE,
      TOKEN_ARTIST,
      TOKEN_TITLE,
      <<"-">>,
      TOKEN_TITLE \o TOKEN_ARTIST,
      TOKEN_ARTIST \o TOKEN_ARTIST,
      <<"%", "a", "r">> \o TOKEN_ARTIST \o <<"i", "s", "t", "%">>,
      TOKEN_ARTIST \o <<"t", "i", "t", "l", "e", "%">> }

\* the option sets of the three examples printed by print_usage
DocExamples ==
    { [ma |-> 10, mt |-> 20, ml |-> 30],
      [ma |-> 10, mt |-> 10, ml |-> 20],
      [ma |-> INT_MAX, mt |-> 13, ml |-> INT_MAX] }

StringNode(s) == [type |-> DBUS_TYPE_STRING, val |-> s]

IntNode == [type |-> DBUS_TYPE_INT32, val |-> <<>>]

ArrayNode(elems) == [type |-> DBUS_TYPE_ARRAY, val |-> elems]

VariantNode(n) == [type |-> DBUS_TYPE_VARIANT, val |-> n]

DictEntry(key, n) ==
    [type |-> DBUS_TYPE_DICT_ENTRY, key |-> key, val |-> VariantNode(n)]

\* the reply of Properties.Get("Metadata"): variant -> array of dict entries
MetadataReply(entries) == <<VariantNode(ArrayNode(entries))>>

TitleEntry(t) == DictEntry(METADATA_TITLE_KEY, StringNode(t))

ArtistEntry(a) == DictEntry(METADATA_ARTIST_KEY, ArrayNode(<<StringNode(a)>>))

OtherEntry == DictEntry("xesam:album", StringNode(<<"m">>))

WellFormedReplies ==
    {MetadataReply(<<OtherEntry, TitleEntry(t), ArtistEntry(a)>>) :
        a \in Artists, t \in Titles}

MalformedReplies ==
    { MetadataReply(<<OtherEntry, ArtistEntry(<<"a">>)>>),
      MetadataReply(<<TitleEntry(<<"x">>), OtherEntry>>),
      MetadataReply(<<>>),
      MetadataReply(<<OtherEntry>>),
      MetadataReply(<<TitleEntry(<<"x">>),
                      DictEntry(METADATA_ARTIST_KEY, StringNode(<<"a">>))>>),
      MetadataReply(<<DictEntry(METADATA_TITLE_KEY, IntNode),
                      ArtistEntry(<<"a">>)>>),
      MetadataReply(<<TitleEntry(<<"x">>),
                      DictEntry(METADATA_ARTIST_KEY, ArrayNode(<<>>))>>),
      MetadataReply(<<DictEntry(METADATA_TITLE_KEY, IntNode),
                      DictEntry(METADATA_ARTIST_KEY, ArrayNode(<<IntNode>>))>>),
      <<StringNode(<<"x">>)>>,
      <<>> }

Replies == WellFormedReplies \cup MalformedReplies

-----------------------------------------------------------------------------
(* format_output *)

\* what a read through p yields when the read of a null pointer does not fault
Deref(p) == IF p = NULL THEN <<>> ELSE p

TOTAL_UNTRUNC_LENGTH(a, t, fmt) ==
    Len(fmt)
    + num_of_matches(fmt, TOKEN_ARTIST) * (Len(a) - Len(TOKEN_ARTIST))
    + num_of_matches(fmt, TOKEN_TITLE) * (Len(t) - Len(TOKEN_TITLE))

\* variant: the branch is taken only when the estimate is over the budget
TruncateBranch_OnlyOverBudget(ml, total) == total > ml

TruncateBranch(ml, total) == ml = INT_MAX \/ total > ml

\* variant: the title pass is left out
ReplaceTokens_ArtistOnly(fmt, a, t) == str_replace_all(fmt, TOKEN_ARTIST, a)

\* both tokens replaced: the artist pass first, the title pass over its result
ReplaceTokens(fmt, a, t) ==
    str_replace_all(str_replace_all(fmt, TOKEN_ARTIST, a), TOKEN_TITLE, t)

-----------------------------------------------------------------------------
(* The process *)

Init ==
    /\ pc = "query"
    /\ SUPPRESS_ERRORS \in BOOLEAN
    /\ format \in Templates
    /\ trunc \in Markers
    /\ \/ /\ max_artist_length \in Budgets
          /\ max_title_length \in Budgets
          /\ max_length \in Budgets
       \/ \E e \in DocExamples :
            /\ max_artist_length = e.ma
            /\ max_title_length = e.mt
            /\ max_length = e.ml
    /\ reply = <<>>
    /\ title = NULL
    /\ artist = NULL
    /\ branch = "none"
    /\ trunc_title = NULL
    /\ trunc_artist = NULL
    /\ temp2 = <<>>
    /\ output = NULL
    /\ stdout = <<>>
    /\ stderr = <<>>
    /\ status = "running"
    /\ failed = {}

\* exit(code), with msg written to stderr first unless -q was given
ExitWith(code, msg) ==
    /\ stderr' = IF SUPPRESS_ERRORS THEN stderr ELSE Append(stderr, msg)
    /\ status' = code
    /\ pc' = "exited"

\* get_status: the reply arrives
QueryReply ==
    /\ pc = "query"
    /\ \E r \in Replies : reply' = r
    /\ pc' = "extract_title"
    /\ UNCHANGED <<options, title, artist, branch, trunc_title, trunc_artist,
                   temp2, output, stdout, stderr, status, failed>>

\* get_status: the call fails
QueryError ==
    /\ pc = "query"
    /\ ExitWith("exit1", MSG_TRANSPORT)
    /\ UNCHANGED <<options, reply, title, artist, branch, trunc_title,
                   trunc_artist, temp2, output, stdout, failed>>

ExtractTitle ==
    /\ pc = "extract_title"
    /\ title' = get_song_title_from_metadata(reply)
    /\ pc' = "extract_artist"
    /\ UNCHANGED <<options, reply, artist, branch, trunc_title, trunc_artist,
                   temp2, output, stdout, stderr, status, failed>>

ExtractArtist ==
    /\ pc = "extract_artist"
    /\ artist' = get_song_artist_from_metadata(reply)
    /\ pc' = "format"
    /\ UNCHANGED <<options, reply, title, branch, trunc_title, trunc_artist,
                   temp2, output, stdout, stderr, status, failed>>

\* strlen(NULL): the read faults
FormatNullFault ==
    /\ pc = "format"
    /\ artist = NULL \/ title = NULL
    /\ status' = "SIGSEGV"
    /\ pc' = "exited"
    /\ UNCHANGED <<options, reply, title, artist, branch, trunc_title,
                   trunc_artist, temp2, output, stdout, stderr, failed>>

\* format_output up to the choice of the branch
FormatEnter ==
    /\ pc = "format"
    /\ LET a == Deref(artist)
           t == Deref(title)
       IN IF Len(a) = 0 /\ Len(t) = 0
          THEN /\ output' = DEFAULT_PLACEHOLDER
               /\ branch' = "placeholder"
               /\ pc' = "puts"
          ELSE IF TruncateBranch(max_length, TOTAL_UNTRUNC_LENGTH(a, t, format))
          THEN /\ branch' = "truncate"
               /\ pc' = "trunc_title"
               /\ UNCHANGED output
          ELSE /\ branch' = "substitute"
               /\ pc' = "substitute"
               /\ UNCHANGED output
    /\ UNCHANGED <<options, reply, title, artist, trunc_title, trunc_artist,
                   temp2, stdout, stderr, status, failed>>

\* variant: the title is cut to the artist's budget
TruncTitle_ArtistBudget ==
    /\ pc = "trunc_title"
    /\ trunc_title' = str_trunc(Deref(title), max_artist_length, trunc)
    /\ IF trunc_title' = NULL
       THEN /\ failed' = failed \cup {"title"}
            /\ IF ~SUPPRESS_ERRORS
               THEN ExitWith("exit1", MSG_TITLE)
               ELSE /\ pc' = "trunc_artist"
                    /\ UNCHANGED <<stderr, status>>
       ELSE /\ pc' = "trunc_artist"
            /\ UNCHANGED <<stderr, status, failed>>
    /\ UNCHANGED <<options, reply, title, artist, branch, trunc_artist, temp2,
                   output, stdout>>

TruncTitle ==
    /\ pc = "trunc_title"
    /\ trunc_title' = str_trunc(Deref(title), max_title_length, trunc)
    /\ IF trunc_title' = NULL
       THEN /\ failed' = failed \cup {"title"}
            /\ IF ~SUPPRESS_ERRORS
               THEN ExitWith("exit1", MSG_TITLE)
               ELSE /\ pc' = "trunc_artist"
                    /\ UNCHANGED <<stderr, status>>
       ELSE /\ pc' = "trunc_artist"
            /\ UNCHANGED <<stderr, status, failed>>
    /\ UNCHANGED <<options, reply, title, artist, branch, trunc_artist, temp2,
                   output, stdout>>

\* variant: the artist failure reports the title's message
TruncArtist_TitleMessage ==
    /\ pc = "trunc_artist"
    /\ trunc_artist' = str_trunc(Deref(artist), max_artist_length, trunc)
    /\ IF trunc_artist' = NULL
       THEN /\ failed' = failed \cup {"artist"}
            /\ ExitWith("exit1", MSG_TITLE)
       ELSE /\ pc' = "replace"
            /\ UNCHANGED <<stderr, status, failed>>
    /\ UNCHANGED <<options, reply, title, artist, branch, trunc_title, temp2,
                   output, stdout>>

TruncArtist ==
    /\ pc = "trunc_artist"
    /\ trunc_artist' = str_trunc(Deref(artist), max_artist_length, trunc)
    /\ IF trunc_artist' = NULL
       THEN /\ failed' = failed \cup {"artist"}
            /\ ExitWith("exit1", MSG_ARTIST)
       ELSE /\ pc' = "replace"
            /\ UNCHANGED <<stderr, status, failed>>
    /\ UNCHANGED <<options, reply, title, artist, branch, trunc_title, temp2,
                   output, stdout>>

\* str_replace_all(temp, TOKEN_TITLE, NULL): the read faults
ReplaceNullFault ==
    /\ pc = "replace"
    /\ trunc_title = NULL
    /\ status' = "SIGSEGV"
    /\ pc' = "exited"
    /\ UNCHANGED <<options, reply, title, artist, branch, trunc_title,
                   trunc_artist, temp2, output, stdout, stderr, failed>>

Replace ==
    /\ pc = "replace"
    /\ temp2' = ReplaceTokens(format, trunc_artist, Deref(trunc_title))
    /\ pc' = "trunc_output"
    /\ UNCHANGED <<options, reply, title, artist, branch, trunc_title,
                   trunc_artist, output, stdout, stderr, status, failed>>

\* variant: the whole line is cut to the title's budget
TruncOutput_TitleBudget ==
    /\ pc = "trunc_output"
    /\ output' = str_trunc(temp2, max_title_length, trunc)
    /\ IF output' = NULL
       THEN /\ failed' = failed \cup {"output"}
            /\ ExitWith("exit1", MSG_OUTPUT)
       ELSE /\ pc' = "puts"
            /\ UNCHANGED <<stderr, status, failed>>
    /\ UNCHANGED <<options, reply, title, artist, branch, trunc_title,
                   trunc_artist, temp2, stdout>>

TruncOutput ==
    /\ pc = "trunc_output"
    /\ output' = str_trunc(temp2, max_length, trunc)
    /\ IF output' = NULL
       THEN /\ failed' = failed \cup {"output"}
            /\ ExitWith("exit1", MSG_OUTPUT)
       ELSE /\ pc' = "puts"
            /\ UNCHANGED <<stderr, status, failed>>
    /\ UNCHANGED <<options, reply, title, artist, branch, trunc_title,
                   trunc_artist, temp2, stdout>>

Substitute ==
    /\ pc = "substitute"
    /\ output' = ReplaceTokens(format, Deref(artist), Deref(title))
    /\ pc' = "puts"
    /\ UNCHANGED <<options, reply, title, artist, branch, trunc_title,
                   trunc_artist, temp2, stdout, stderr, status, failed>>

\* get_status prints the line; main returns 0
Puts ==
    /\ pc = "puts"
    /\ stdout' = Append(stdout, output)
    /\ status' = "exit0"
    /\ pc' = "exited"
    /\ UNCHANGED <<options, reply, title, artist, branch, trunc_title,
                   trunc_artist, temp2, output, stderr, failed>>

Next ==
    \/ QueryReply
    \/ QueryError
    \/ ExtractTitle
    \/ ExtractArtist
    \/ FormatNullFault
    \/ FormatEnter
    \/ TruncTitle
    \/ TruncArtist
    \/ ReplaceNullFault
    \/ Replace
    \/ TruncOutput
    \/ Substitute
    \/ Puts

Spec == Init /\ [][Next]_vars

-----------------------------------------------------------------------------
(* Properties *)

Range(seq) == {seq[i] : i \in DOMAIN seq}

Min(a, b) == IF a <= b THEN a ELSE b

\* str contains find
Contains(str, find) == \E i \in 1..Len(str) : MatchAt(str, find, i)

MessageOf(budget) ==
    IF budget = "title" THEN MSG_TITLE
    ELSE IF budget = "artist" THEN MSG_ARTIST
    ELSE MSG_OUTPUT

\* format_output has been called
FormatEntered == branch # "none" \/ status = "SIGSEGV"

\* the estimate of the substituted length, as the documentation states it
Estimate ==
    Len(format)
    + num_of_matches(format, TOKEN_ARTIST) * (Len(Deref(artist)) - Len(TOKEN_ARTIST))
    + num_of_matches(format, TOKEN_TITLE) * (Len(Deref(title)) - Len(TOKEN_TITLE))

HasToken(str) == Contains(str, TOKEN_ARTIST) \/ Contains(str, TOKEN_TITLE)

\* v is empty or occurs inside the text of a token between its two '%'
InsideTokenText(v) ==
    \/ v = <<>>
    \/ Contains(<<"a", "r", "t", "i", "s", "t">>, v)
    \/ Contains(<<"t", "i", "t", "l", "e">>, v)

NoPercent(str) == \A i \in 1..Len(str) : str[i] # "%"

\* C1: whenever one of the three truncations has failed, the process has
\* exited with status 1 and has printed no status line, with or without -q.
C1_TruncationFailureAborts ==
    failed # {} => (pc = "exited" /\ status = "exit1" /\ stdout = <<>>)

\* C2 (as claimed): every truncation failure is reported on stderr with the
\* message of its budget, with or without -q.
C2_FailureAlwaysReported ==
    \A b \in failed : MessageOf(b) \in Range(stderr)

\* C2 (amended): the message of a budget is on stderr exactly when the
\* truncation for that budget failed and -q was not given.
C2_FailureReportedUnlessSuppressed ==
    \A b \in {"title", "artist", "output"} :
        (MessageOf(b) \in Range(stderr)) <=> (b \in failed /\ ~SUPPRESS_ERRORS)

C2_Witness ==
    /\ failed = {"artist"}
    /\ ~SUPPRESS_ERRORS
    /\ stderr = <<MSG_ARTIST>>
    /\ status = "exit1"

\* C3: once format_output has run with artist and title each absent or
\* empty, it has returned the placeholder, without a fault or a failure.
C3_PlaceholderWhenAbsentOrEmpty ==
    (FormatEntered /\ Deref(artist) = <<>> /\ Deref(title) = <<>>)
        => /\ branch = "placeholder"
           /\ output = DEFAULT_PLACEHOLDER
           /\ status # "SIGSEGV"
           /\ failed = {}

\* C4: a run in which an extraction yielded no value, and no truncation
\* failed, ends with status 0 and one printed line, the placeholder when both
\* fields are absent.
C4_AbsentFieldStillPrints ==
    (pc = "exited" /\ FormatEntered /\ failed = {}
        /\ (artist = NULL \/ title = NULL))
        => /\ status = "exit0"
           /\ Len(stdout) = 1
           /\ (artist = NULL /\ title = NULL) => stdout = <<DEFAULT_PLACEHOLDER>>

\* C5: with a non-empty field, the truncation branch is taken exactly when
\* max_length is unbounded or the estimate exceeds it; otherwise no field is
\* truncated and the result is the template with the full values substituted.
C5_BranchIffEstimateOverBudget ==
    (branch # "none" /\ (Deref(artist) # <<>> \/ Deref(title) # <<>>))
        => /\ branch \in {"truncate", "substitute"}
           /\ branch = "truncate"
                <=> (max_length = INT_MAX \/ Estimate > max_length)
           /\ branch = "substitute"
                => /\ trunc_title = NULL /\ trunc_artist = NULL /\ failed = {}
                   /\ pc \in {"puts", "exited"}
                        => /\ output = ReplaceTokens(format, Deref(artist), Deref(title))
                           /\ \A i \in 1..Len(stdout) : stdout[i] = output

C5_Witness ==
    /\ branch = "substitute"
    /\ pc = "exited"
    /\ artist # NULL /\ title # NULL
    /\ Len(artist) > max_artist_length
    /\ format = TOKEN_ARTIST
    /\ stdout = <<artist>>

\* C6: with --max-length given, no printed line is longer than max_length.
C6_PrintedLineWithinMaxLength ==
    (max_length # INT_MAX /\ artist # NULL /\ title # NULL)
        => \A i \in 1..Len(stdout) : Len(stdout[i]) <= max_length

\* C7 (as claimed): a result returned by either branch contains no token.
C7_NoTokenRemains ==
    (branch \in {"truncate", "substitute"} /\ output # NULL /\ failed = {}
        /\ artist # NULL /\ title # NULL)
        => ~HasToken(output)

\* C7 (amended): a result returned by either branch contains no token when
\* artist, title and marker hold no '%' and neither substituted value is
\* empty or a piece of the text of a token.
C7_NoTokenRemainsForPlainValues ==
    (branch \in {"truncate", "substitute"} /\ output # NULL /\ failed = {}
        /\ artist # NULL /\ title # NULL
        /\ NoPercent(artist) /\ NoPercent(title) /\ NoPercent(trunc)
        /\ ~InsideTokenText(IF branch = "truncate" THEN trunc_artist ELSE artist)
        /\ ~InsideTokenText(IF branch = "truncate" THEN trunc_title ELSE title))
        => ~HasToken(output)

C7_Witness ==
    /\ pc = "exited"
    /\ branch = "truncate"
    /\ format = DEFAULT_FORMAT_TEMPLATE
    /\ artist = Eminem
    /\ title = <<"x", "y">>
    /\ trunc_artist = <<"E", "m", ".">>
    /\ stdout = <<<<"E", "m", ".", ":", " ", "x", "y">>>>

\* C8: the third example of the usage text prints "Eminem: Sing For T...".
C8_UsageExampleTitle13 ==
    (pc = "exited" /\ format = DEFAULT_FORMAT_TEMPLATE /\ trunc = DEFAULT_TRUNC
        /\ max_title_length = 13 /\ max_artist_length = INT_MAX
        /\ max_length = INT_MAX
        /\ artist = Eminem /\ title = SingForTheMoment)
        => /\ branch = "truncate"
           /\ trunc_artist = Eminem
           /\ trunc_title = <<"S", "i", "n", "g", " ", "F", "o", "r", " ", "T",
                              ".", ".", ".">>
           /\ stdout = <<Eminem \o <<":", " ">> \o
                         <<"S", "i", "n", "g", " ", "F", "o", "r", " ", "T",
                           ".", ".", ".">>>>
           /\ status = "exit0"

C8_Witness ==
    /\ pc = "exited" /\ format = DEFAULT_FORMAT_TEMPLATE /\ trunc = DEFAULT_TRUNC
    /\ max_title_length = 13 /\ max_artist_length = INT_MAX
    /\ max_length = INT_MAX
    /\ artist = Eminem /\ title = SingForTheMoment
    /\ Len(stdout) = 1 /\ Len(stdout[1]) = 21

\* C9: an artist value that holds the title token is still found verbatim in
\* the substituted string when the template has an artist token.
C9_ArtistTextNotRescanned ==
    /\ (branch = "substitute" /\ output # NULL /\ artist # NULL /\ title # NULL
            /\ num_of_matches(format, TOKEN_ARTIST) > 0
            /\ Contains(artist, TOKEN_TITLE))
        => Contains(output, artist)
    /\ (branch = "truncate" /\ pc \in {"trunc_output", "puts"}
            /\ trunc_title # NULL /\ artist # NULL /\ title # NULL
            /\ num_of_matches(format, TOKEN_ARTIST) > 0
            /\ Contains(trunc_artist, TOKEN_TITLE))
        => Contains(temp2, trunc_artist)

\* C10: a result of the truncation branch under a bounded max_length has
\* length min(len(S), max_length), S being the template with the truncated
\* fields substituted: S itself, or its first max_length - len(marker)
\* characters followed by the marker.
C10_TruncatedResultLength ==
    (branch = "truncate" /\ max_length # INT_MAX /\ output # NULL
        /\ trunc_title # NULL /\ artist # NULL /\ title # NULL)
        => /\ trunc_artist = str_trunc(artist, max_artist_length, trunc)
           /\ trunc_title = str_trunc(title, max_title_length, trunc)
           /\ temp2 = ReplaceTokens(format, trunc_artist, trunc_title)
           /\ Len(output) = Min(Len(temp2), max_length)
           /\ Len(temp2) <= max_length => output = temp2
           /\ Len(temp2) > max_length
                => /\ Len(trunc) <= max_length
                   /\ output = SubSeq(temp2, 1, max_length - Len(trunc)) \o trunc

C10_Witness ==
    /\ pc = "exited"
    /\ branch = "truncate"
    /\ max_length = 3
    /\ trunc = <<".">>
    /\ Len(temp2) > 3
    /\ stdout = <<SubSeq(temp2, 1, 2) \o <<".">>>>

====
